---- MODULE Spec2Model ----
(***************************************************************************)
(* Bulk wallet registration: the two variants of the script, register.js   *)
(* (network probe, while-loop retry) and the WalletRegistrar class         *)
(* (recursive retry, no probe).  External capabilities (DNS, HTTP, signing,*)
(* the file system, the operator's answers) are nondeterministic inputs.   *)
(***************************************************************************)
EXTENDS Integers, Sequences, FiniteSets, TLC

\* ---------------------------------------------------------------- bounds
\* largest digit the operator types at the wallet-count prompt
MaxCount == 2

\* ------------------------------------------------------- CONFIG constants
maxRetries == 3
retryDelay == 2000
defaultWalletCount == 1

\* largest wallet count a run of the model can have
MaxWallets == IF MaxCount > defaultWalletCount THEN MaxCount ELSE defaultWalletCount

Variants == {"register", "registrar"}

\* ------------------------------------------------------ operator's answers
Digits == <<"0", "1", "2", "3", "4", "5", "6", "7", "8", "9">>

IsDigit(c) == \E k \in 1..10 : Digits[k] = c

DigitVal(c) == (CHOOSE k \in 1..10 : Digits[k] = c) - 1

\* what the operator may type at the wallet-count prompt
Answers ==
  {<<>>, <<" ">>, <<"a">>, <<"-", "1">>}
    \cup {<<Digits[d + 1]>> : d \in 0..MaxCount}
    \cup {<<" ", Digits[d + 1], "a">> : d \in 1..MaxCount}

\* a JS number: NaN or an integer
NaN == [nan |-> TRUE, val |-> 0]
Num(n) == [nan |-> FALSE, val |-> n]

RECURSIVE TrimStart(_)
TrimStart(s) == IF s # <<>> /\ Head(s) = " " THEN TrimStart(Tail(s)) ELSE s

RECURSIVE TrimEnd(_)
TrimEnd(s) ==
  IF s # <<>> /\ s[Len(s)] = " " THEN TrimEnd(SubSeq(s, 1, Len(s) - 1)) ELSE s

\* String.prototype.trim
Trim(s) == TrimEnd(TrimStart(s))

RECURSIVE DigitPrefix(_, _)
\* value of the longest prefix of digits of s, acc the value read so far
DigitPrefix(s, acc) ==
  IF s # <<>> /\ IsDigit(Head(s))
  THEN DigitPrefix(Tail(s), 10 * acc + DigitVal(Head(s)))
  ELSE acc

\* parseInt(string): skip leading blanks, optional sign, leading digits; NaN
\* when no digit follows
parseInt(s) ==
  LET t == TrimStart(s)
      neg == t # <<>> /\ Head(t) = "-"
      u == IF t # <<>> /\ Head(t) \in {"-", "+"} THEN Tail(t) ELSE t
  IN IF u = <<>> \/ ~IsDigit(Head(u)) THEN NaN
     ELSE Num((IF neg THEN -1 ELSE 1) * DigitPrefix(u, 0))

\* JS truthiness of a number
Truthy(n) == ~n.nan /\ n.val # 0

\* register.js: parseInt(answer) || CONFIG.defaultWalletCount
mainWalletCount(answer) ==
  IF Truthy(parseInt(answer)) THEN parseInt(answer) ELSE Num(defaultWalletCount)

\* WalletRegistrar.askQuestion with isNumber = true
askQuestion(answer, defaultValue) ==
  IF Trim(answer) = <<>> THEN Num(defaultValue) ELSE parseInt(answer)

\* i <= count of the for loops (false when count is NaN)
LoopTest(k, count) == ~count.nan /\ k <= count.val

\* ------------------------------------------------------------ error values
\* code: error.code; message: type of error.message; respMsg: type of
\* error.response?.data?.message ("absent" when undefined or falsy)
NoError == [kind |-> "none", code |-> "none", message |-> "string", respMsg |-> "absent"]

Err(kind, code, respMsg) ==
  [kind |-> kind, code |-> code, message |-> "string", respMsg |-> respMsg]

\* outcomes of axios.post
Responses ==
  {"ENOTFOUND", "ECONNREFUSED", "HTTP_ERR_STR", "HTTP_ERR_NONSTR", "OK_REJECTED", "OK_SUCCESS"}

ConnCodes == {"ENOTFOUND", "ECONNREFUSED"}

\* the error axios.post rejects with / the error thrown on a falsy success flag
PostError(resp) ==
  CASE resp \in ConnCodes -> Err("conn", resp, "absent")
    [] resp = "HTTP_ERR_STR" -> Err("http", "ERR_BAD_REQUEST", "string")
    [] resp = "HTTP_ERR_NONSTR" -> Err("http", "ERR_BAD_REQUEST", "nonstring")
    [] resp = "OK_REJECTED" -> Err("rejected", "none", "absent")
    [] OTHER -> NoError

\* variation: a falsy success flag is taken for success
SuccessFlag_any(resp) == resp \in {"OK_SUCCESS", "OK_REJECTED"}

\* the success flag of the response body is truthy
SuccessFlag(resp) == resp = "OK_SUCCESS"

\* variation: a connectivity failure is answered by a second POST in the call
registerWallet_failover(signOk, resp) ==
  IF ~signOk THEN [posts |-> 0, ok |-> FALSE, error |-> Err("sign", "none", "absent")]
  ELSE IF resp \in ConnCodes
       THEN [posts |-> 2, ok |-> TRUE, error |-> NoError]
       ELSE IF resp # "OK_SUCCESS"
            THEN [posts |-> 1, ok |-> FALSE, error |-> PostError(resp)]
            ELSE [posts |-> 1, ok |-> TRUE, error |-> NoError]

\* registerWallet: sign, one POST, check the success flag.  posts is the
\* number of HTTP POSTs the call issued, ok whether it returned a record.
registerWallet(signOk, resp) ==
  IF ~signOk THEN [posts |-> 0, ok |-> FALSE, error |-> Err("sign", "none", "absent")]
  ELSE IF resp \in Responses \ {"OK_REJECTED", "OK_SUCCESS"}
       THEN [posts |-> 1, ok |-> FALSE, error |-> PostError(resp)]
       ELSE IF ~SuccessFlag(resp)
            THEN [posts |-> 1, ok |-> FALSE, error |-> PostError(resp)]
            ELSE [posts |-> 1, ok |-> TRUE, error |-> NoError]

\* variation: the GET is tried although the DNS resolution failed
checkNetworkConnection_fallthrough(dnsOk, netOk) ==
  [ok |-> netOk, steps |-> <<"dns", "get">>, threw |-> FALSE]

\* variation: without the try / catch a failed check is thrown to the caller
checkNetworkConnection_noCatch(dnsOk, netOk) ==
  IF ~dnsOk THEN [ok |-> FALSE, steps |-> <<"dns">>, threw |-> TRUE]
  ELSE IF ~netOk THEN [ok |-> FALSE, steps |-> <<"dns", "get">>, threw |-> TRUE]
       ELSE [ok |-> TRUE, steps |-> <<"dns", "get">>, threw |-> FALSE]

\* checkNetworkConnection: DNS resolution of the API host, then a GET; steps
\* are the requests it issued, in order; threw: the call ended with an
\* exception instead of a return value (the catch of lines 34-41 returns false)
checkNetworkConnection(dnsOk, netOk) ==
  IF ~dnsOk THEN [ok |-> FALSE, steps |-> <<"dns">>, threw |-> FALSE]
  ELSE IF ~netOk THEN [ok |-> FALSE, steps |-> <<"dns", "get">>, threw |-> FALSE]
       ELSE [ok |-> TRUE, steps |-> <<"dns", "get">>, threw |-> FALSE]

NoProbe == [ok |-> TRUE, steps |-> <<>>, dns |-> TRUE, net |-> TRUE, threw |-> FALSE]

\* register.js catch block: the type of errorMsg
\* (error.response?.data?.message || error.message)
errorMsgType(e) == IF e.respMsg # "absent" THEN e.respMsg ELSE e.message

\* register.js line 110: errorMsg.includes(...) is evaluated unless the code
\* is ENOTFOUND; it throws a TypeError when errorMsg is no string
catchThrows(e) == e.code # "ENOTFOUND" /\ errorMsgType(e) # "string"

\* variation: off-by-one loop bound
whileCond_offByOne(a, r) == a <= maxRetries /\ ~r

\* while (attempts < CONFIG.maxRetries && !registered)
whileCond(a, r) == a < maxRetries /\ ~r

\* variation: the delay also follows the last failed attempt
retryCond_offByOne(a) == a <= maxRetries

\* if (attempts < CONFIG.maxRetries) wait
retryCond(a) == a < maxRetries

\* ---------------------------------------------------------------- JS values
\* a value is undefined, null, a string (a sequence of characters or words)
\* or an object
Undefined == [t |-> "undefined", v |-> <<>>]
Null == [t |-> "null", v |-> <<>>]
Str(s) == [t |-> "string", v |-> s]
Obj(o) == [t |-> "object", v |-> o]

\* JS truthiness of a value: undefined, null and "" are falsy
TruthyVal(x) == x.t = "object" \/ (x.t = "string" /\ x.v # <<>>)

\* x || y
Or(x, y) == IF TruthyVal(x) THEN x ELSE y

\* what the operator may type at the referral-code prompt
RefAnswers == {<<>>, <<" ">>, <<" ", "R7", " ">>}

\* register.js main: referralCode.trim(), handed to generateAndRegisterWallet
mainReferralCode(answer) == Str(Trim(answer))

\* WalletRegistrar.askQuestion with isNumber = false and defaultValue = null
askQuestionText(answer) == IF Trim(answer) = <<>> THEN Null ELSE Str(Trim(answer))

\* ethers.Wallet.createRandom(): a fresh key pair, id names it
createRandom(id) ==
  [address |-> <<"0xaddr", id>>, privateKey |-> <<"0xkey", id>>,
   mnemonic |-> Str(<<"phrase", id>>)]

\* new Date(ms).toISOString()
toISOString(ms) == <<"T", ToString(ms)>>

\* `Register ${wallet.address} at ${timestamp}`
Message(address, timestamp) == <<"Register">> \o address \o <<"at">> \o timestamp

\* wallet.signMessage(message): determined by the key and the message
signMessage(wallet, message) == <<"sig">> \o wallet.privateKey \o message

NoRequest ==
  [walletAddress |-> <<>>, referralCode |-> Undefined, signature |-> <<>>,
   message |-> <<>>, timestamp |-> <<>>]

\* WalletRegistrar.registerWallet, lines 95-104: referralCode || undefined
WalletRegistrar_buildRequest(wallet, referralCode, now) ==
  LET timestamp == toISOString(now)
      message == Message(wallet.address, timestamp)
  IN [walletAddress |-> wallet.address, referralCode |-> Or(referralCode, Undefined),
      signature |-> signMessage(wallet, message), message |-> message,
      timestamp |-> timestamp]

\* response.data: the success flag, the optional message, the other fields
NoBody == [success |-> FALSE, message |-> Undefined, payload |-> <<>>]

Payloads == {<<"id", "p1">>, <<"id", "p2">>}

\* the bodies the server may send with a response
Bodies(resp) ==
  CASE resp = "OK_SUCCESS" ->
         {[success |-> TRUE, message |-> Undefined, payload |-> q] : q \in Payloads}
    [] resp = "OK_REJECTED" ->
         {[success |-> FALSE, message |-> m, payload |-> <<>>] :
            m \in {Undefined, Str(<<"already registered">>)}}
    [] OTHER -> {NoBody}

\* variation: the message of the response is used as it is
rejectionMessage_raw(body) == body.message

\* response.data.message || 'Registration failed'
rejectionMessage(body) == Or(body.message, Str(<<"Registration failed">>))

Fields == {"address", "privateKey", "mnemonic", "referralCode", "registeredAt", "apiResponse"}

NoRecord == [f \in Fields |-> Undefined]

\* variation: only the message of the response is kept as apiResponse
buildRecord_messageOnly(wallet, referralCode, timestamp, body) ==
  [f \in Fields |->
     CASE f = "address" -> Str(wallet.address)
       [] f = "privateKey" -> Str(wallet.privateKey)
       [] f = "mnemonic" -> wallet.mnemonic
       [] f = "referralCode" -> Or(referralCode, Str(<<"none">>))
       [] f = "registeredAt" -> Str(timestamp)
       [] OTHER -> body.message]

\* registerWallet, lines 150-157: the record returned on success
buildRecord(wallet, referralCode, timestamp, body) ==
  [f \in Fields |->
     CASE f = "address" -> Str(wallet.address)
       [] f = "privateKey" -> Str(wallet.privateKey)
       [] f = "mnemonic" -> wallet.mnemonic
       [] f = "referralCode" -> Or(referralCode, Str(<<"none">>))
       [] f = "registeredAt" -> Str(timestamp)
       [] OTHER -> Obj(body)]

\* JSON.stringify of a record: the fields whose value is undefined are left out
JSONstringify(rec) == [f \in {g \in DOMAIN rec : rec[g].t # "undefined"} |-> rec[f]]

\* JSON.parse of a file's text, read as a record
JSONparse(text) == [f \in Fields |-> IF f \in DOMAIN text THEN text[f] ELSE Undefined]

\* the output directory: fs.writeFileSync replaces the file of that name
writeFileSync(dir, name, text) ==
  {f \in dir : f.name # name} \cup {[name |-> name, text |-> text]}

\* the record file an earlier run of the same script left in the directory
EarlierFile(v) ==
  [name |-> IF v = "register" THEN <<1, 1, 0>> ELSE <<1>>,
   text |-> JSONstringify(buildRecord(createRandom("earlier"), Undefined,
                                      toISOString(0),
                                      [success |-> TRUE, message |-> Undefined,
                                       payload |-> <<"id", "p1">>]))]

\* generateAndRegisterWallet, line 84:
\* `wallet_${current}_of_${total}_${Date.now()}.json`
fileName(current, total, now) == <<current, total, now>>

\* generateWallets: `wallet_${i}.json`
WalletRegistrar_fileName(k) == <<k>>

VARIABLES
  variant,      \* which script runs
  pc,           \* position of the single thread of control
  exitCode,     \* process exit code, -1 while running
  entered,      \* the number the operator's answer denotes (parseInt of it)
  walletCount,  \* the loop bound
  i,            \* loop variable of the batch loop
  attempts,     \* attempts (register.js) / attempt (registerWithRetry)
  registered,   \* register.js: registered
  error,        \* the error value in flight
  files,        \* names of the record files on disk
  status,       \* per wallet: pending, attempting, succeeded, exhausted, aborted
  serverOk,     \* per wallet: some registration call returned server success
  generated,    \* number of wallets created
  calls,        \* registerWallet calls for the current wallet
  posts,        \* HTTP POSTs for the current wallet
  lastCall,     \* the last registerWallet call: posts issued, first response,
                \* response body, record returned, message of the Error
                \* thrown on a rejection
  waits,        \* the delays waited for the current wallet, in order
  allRejected,  \* every call for the current wallet was a server rejection
  probeFails,   \* attempts of the current wallet whose probe returned false
  lastProbe,    \* the last probe: outcome, requests issued, environment
  probeFailed,  \* where a probe last returned false: "none", "startup", "attempt"
  reported,     \* the completion report was printed
  clock,        \* Date.now(), in ms
  referralCode, \* the referral code main / init hold
  wallet,       \* the wallet being processed
  curFile,      \* fileName of the wallet being processed
  disk,         \* the files of the output directory: name and text
  persisted,    \* every record ever written to the directory: name and text
  lastRequest,  \* the body of the last POST of the current wallet
  sent          \* the bodies of the earlier POSTs of the current wallet

vars ==
  <<variant, pc, exitCode, entered, walletCount, i, attempts, registered, error,
    files, status, serverOk, generated, calls, posts, lastCall, waits,
    allRejected, probeFails, lastProbe, probeFailed, reported, clock,
    referralCode, wallet, curFile, disk, persisted, lastRequest, sent>>

NoCall ==
  [posts |-> 0, first |-> "none", done |-> FALSE, ok |-> FALSE, body |-> NoBody,
   referralCode |-> Undefined, result |-> NoRecord, errorText |-> Undefined]

\* variation: the request of the wallet's first attempt is kept and sent
\* again by the later attempts
buildRequest_stale(wallet_, referralCode_, now) ==
  IF lastRequest # NoRequest THEN lastRequest
  ELSE LET timestamp == toISOString(now)
           message == Message(wallet_.address, timestamp)
       IN [walletAddress |-> wallet_.address, referralCode |-> referralCode_,
           signature |-> signMessage(wallet_, message), message |-> message,
           timestamp |-> timestamp]

\* registerWallet, lines 130-140: the request body, built from the clock
buildRequest(wallet_, referralCode_, now) ==
  LET timestamp == toISOString(now)
      message == Message(wallet_.address, timestamp)
  IN [walletAddress |-> wallet_.address, referralCode |-> referralCode_,
      signature |-> signMessage(wallet_, message), message |-> message,
      timestamp |-> timestamp]

Init ==
  /\ variant \in Variants
  /\ pc = IF variant = "register" THEN "main_probe" ELSE "init_ask"
  /\ exitCode = -1
  /\ entered = NaN
  /\ walletCount = NaN
  /\ i = 0
  /\ attempts = 0
  /\ registered = FALSE
  /\ error = NoError
  /\ files = {}
  /\ status = [w \in 1..MaxWallets |-> "pending"]
  /\ serverOk = [w \in 1..MaxWallets |-> FALSE]
  /\ generated = 0
  /\ calls = 0
  /\ posts = 0
  /\ lastCall = NoCall
  /\ waits = <<>>
  /\ allRejected = TRUE
  /\ probeFails = 0
  /\ lastProbe = NoProbe
  /\ probeFailed = "none"
  /\ reported = FALSE
  /\ clock = 1
  /\ referralCode = Undefined
  /\ wallet = createRandom("none")
  /\ curFile = <<>>
  /\ disk \in {{}, {EarlierFile(variant)}}
  /\ persisted = disk
  /\ lastRequest = NoRequest
  /\ sent = {}

\* ---------------------------------------------------------------- register.js

\* variation: the startup probe's result is ignored
startupExits_never(ok) == FALSE

\* main, lines 54-57: the startup probe; exit(1) when it fails
startupExits(ok) == ~ok

main_probe ==
  /\ pc = "main_probe"
  /\ UNCHANGED <<clock, referralCode, wallet, curFile, disk, persisted, lastRequest, sent>>
  /\ \E dnsOk \in BOOLEAN, netOk \in BOOLEAN :
       LET p == checkNetworkConnection(dnsOk, netOk) IN
         /\ lastProbe' = [ok |-> p.ok, steps |-> p.steps, dns |-> dnsOk, net |-> netOk,
                          threw |-> p.threw]
         /\ probeFailed' = IF p.ok THEN probeFailed ELSE "startup"
         /\ IF p.threw
            THEN /\ error' = Err("probe_thrown", "none", "absent")
                 /\ pc' = "main_catch"
                 /\ UNCHANGED exitCode
            ELSE /\ IF startupExits(p.ok)
                    THEN pc' = "exited" /\ exitCode' = 1
                    ELSE pc' = "main_ask" /\ UNCHANGED exitCode
                 /\ UNCHANGED error
  /\ UNCHANGED <<variant, entered, walletCount, i, attempts, registered,
                 files, status, serverOk, generated, calls, posts, lastCall,
                 waits, allRejected, probeFails, reported>>

\* main, lines 60-69: the prompts and the loop initialisation (the referral
\* code is passed through to registerWallet and decides no branch here)
main_ask ==
  /\ pc = "main_ask"
  /\ UNCHANGED <<clock, wallet, curFile, disk, persisted, lastRequest, sent>>
  /\ \E answer \in Answers :
       /\ entered' = parseInt(answer)
       /\ walletCount' = mainWalletCount(answer)
  /\ \E answer \in RefAnswers : referralCode' = mainReferralCode(answer)
  /\ i' = 1
  /\ pc' = "main_for"
  /\ UNCHANGED <<variant, exitCode, attempts, registered, error, files, status,
                 serverOk, generated, calls, posts, lastCall, waits, allRejected,
                 probeFails, lastProbe, probeFailed, reported>>

\* the per-wallet bookkeeping at the start of a wallet
StartWallet ==
  /\ generated' = generated + 1
  /\ status' = [status EXCEPT ![i] = "attempting"]
  /\ registered' = FALSE
  /\ error' = NoError
  /\ calls' = 0
  /\ posts' = 0
  /\ lastCall' = NoCall
  /\ waits' = <<>>
  /\ allRejected' = TRUE
  /\ probeFails' = 0
  /\ wallet' = createRandom(Digits[i + 1])
  /\ curFile' = IF variant = "register"
                THEN fileName(i, walletCount.val, clock)
                ELSE WalletRegistrar_fileName(i)
  /\ lastRequest' = NoRequest
  /\ sent' = {}

\* main, line 69 and generateAndRegisterWallet, lines 83-89: the loop test;
\* a new wallet is created, or the loop ends and the report is printed
main_for ==
  /\ pc = "main_for"
  /\ UNCHANGED <<clock, referralCode, disk, persisted>>
  /\ IF LoopTest(i, walletCount)
     THEN /\ StartWallet
          /\ attempts' = 0
          /\ pc' = "gen_while"
          /\ UNCHANGED reported
     ELSE /\ reported' = TRUE
          /\ pc' = "done"
          /\ UNCHANGED <<generated, status, registered, error, calls, posts,
                         lastCall, waits, allRejected, probeFails, attempts,
                         wallet, curFile, lastRequest, sent>>
  /\ UNCHANGED <<variant, exitCode, entered, walletCount, i, files, serverOk,
                 lastProbe, probeFailed>>

\* generateAndRegisterWallet, lines 91-92 and 124-126: the while test
gen_while ==
  /\ pc = "gen_while"
  /\ UNCHANGED <<clock, referralCode, wallet, curFile, disk, persisted, lastRequest, sent>>
  /\ IF whileCond(attempts, registered)
     THEN /\ attempts' = attempts + 1
          /\ pc' = "gen_probe"
          /\ UNCHANGED status
     ELSE /\ status' = [status EXCEPT ![i] = IF registered THEN "succeeded" ELSE "exhausted"]
          /\ pc' = "main_inc"
          /\ UNCHANGED attempts
  /\ UNCHANGED <<variant, exitCode, entered, walletCount, i, registered, error,
                 files, serverOk, generated, calls, posts, lastCall, waits,
                 allRejected, probeFails, lastProbe, probeFailed, reported>>

\* main, line 69: i++
main_inc ==
  /\ pc = "main_inc"
  /\ UNCHANGED <<clock, referralCode, wallet, curFile, disk, persisted, lastRequest, sent>>
  /\ i' = i + 1
  /\ pc' = "main_for"
  /\ UNCHANGED <<variant, exitCode, entered, walletCount, attempts, registered,
                 error, files, status, serverOk, generated, calls, posts,
                 lastCall, waits, allRejected, probeFails, lastProbe,
                 probeFailed, reported>>

\* variation: the result of the probe is not looked at
probeBlocks_never(ok) == FALSE

\* generateAndRegisterWallet, lines 95-97: if (!await checkNetworkConnection())
\* throw new Error('Network unavailable')
probeBlocks(ok) == ~ok

\* generateAndRegisterWallet, lines 95-97: the probe before the attempt
gen_probe ==
  /\ pc = "gen_probe"
  /\ UNCHANGED <<clock, referralCode, wallet, curFile, disk, persisted, lastRequest, sent>>
  /\ \E dnsOk \in BOOLEAN, netOk \in BOOLEAN :
       LET p == checkNetworkConnection(dnsOk, netOk) IN
         /\ lastProbe' = [ok |-> p.ok, steps |-> p.steps, dns |-> dnsOk, net |-> netOk,
                          threw |-> p.threw]
         /\ probeFails' = IF p.ok THEN probeFails ELSE probeFails + 1
         /\ probeFailed' = IF p.ok THEN probeFailed ELSE "attempt"
         /\ IF p.threw
            THEN /\ error' = Err("probe_thrown", "none", "absent")
                 /\ pc' = "gen_catch"
            ELSE IF probeBlocks(p.ok)
                 THEN /\ error' = Err("probe", "none", "absent")
                      /\ pc' = "gen_catch"
                 ELSE /\ pc' = "gen_register"
                      /\ UNCHANGED error
  /\ UNCHANGED <<variant, exitCode, entered, walletCount, i, attempts, registered,
                 files, status, serverOk, generated, calls, posts, lastCall,
                 waits, allRejected, reported>>

\* the bookkeeping of one registerWallet call with outcome r on response resp
CallMade(r, signOk, resp, body, req) ==
  /\ calls' = calls + 1
  /\ posts' = posts + r.posts
  /\ lastCall' =
       [posts |-> r.posts, first |-> IF signOk THEN resp ELSE "none", done |-> TRUE,
        ok |-> r.ok, body |-> IF signOk THEN body ELSE NoBody,
        referralCode |-> req.referralCode,
        result |-> IF r.ok
                   THEN buildRecord(wallet, req.referralCode, req.timestamp, body)
                   ELSE NoRecord,
        errorText |-> IF signOk /\ resp = "OK_REJECTED"
                      THEN rejectionMessage(body) ELSE Undefined]
  /\ lastRequest' = IF r.posts > 0 THEN req ELSE lastRequest
  /\ sent' = IF r.posts > 0 /\ lastRequest # NoRequest THEN sent \cup {lastRequest} ELSE sent
  /\ allRejected' = (allRejected /\ signOk /\ resp = "OK_REJECTED")
  /\ serverOk' = [serverOk EXCEPT ![i] = @ \/ (signOk /\ SuccessFlag(resp))]

\* generateAndRegisterWallet, line 99: the registerWallet call
gen_register ==
  /\ pc = "gen_register"
  /\ UNCHANGED <<clock, referralCode, wallet, curFile, disk, persisted>>
  /\ \E signOk \in BOOLEAN, resp \in Responses :
       \E body \in Bodies(resp) :
         LET r == registerWallet(signOk, resp)
             req == buildRequest(wallet, Or(referralCode, Undefined), clock)
         IN
         /\ CallMade(r, signOk, resp, body, req)
         /\ error' = r.error
         /\ pc' = IF r.ok THEN "gen_write" ELSE "gen_catch"
  /\ UNCHANGED <<variant, exitCode, entered, walletCount, i, attempts, registered,
                 files, status, generated, waits, probeFails, lastProbe,
                 probeFailed, reported>>

\* generateAndRegisterWallet, lines 100-104: the record file is written
gen_write ==
  /\ pc = "gen_write"
  /\ UNCHANGED <<clock, referralCode, wallet, curFile, lastRequest, sent>>
  /\ \E writeOk \in BOOLEAN :
       IF writeOk
       THEN /\ files' = files \cup {curFile}
            /\ disk' = writeFileSync(disk, curFile, JSONstringify(lastCall.result))
            /\ persisted' = persisted
                 \cup {[name |-> curFile, text |-> JSONstringify(lastCall.result)]}
            /\ registered' = TRUE
            /\ pc' = "gen_while"
            /\ UNCHANGED error
       ELSE /\ error' = Err("write", "EACCES", "absent")
            /\ pc' = "gen_catch"
            /\ UNCHANGED <<files, registered, disk, persisted>>
  /\ UNCHANGED <<variant, exitCode, entered, walletCount, i, attempts, status,
                 serverOk, generated, calls, posts, lastCall, waits, allRejected,
                 probeFails, lastProbe, probeFailed, reported>>

\* generateAndRegisterWallet, lines 106-121: the catch block
gen_catch ==
  /\ pc = "gen_catch"
  /\ UNCHANGED <<clock, referralCode, wallet, curFile, disk, persisted, lastRequest, sent>>
  /\ IF catchThrows(error)
     THEN /\ error' = Err("typeerror", "none", "absent")
          /\ status' = [status EXCEPT ![i] = "aborted"]
          /\ pc' = "main_catch"
     ELSE /\ pc' = IF retryCond(attempts) THEN "gen_delay" ELSE "gen_while"
          /\ UNCHANGED <<error, status>>
  /\ UNCHANGED <<variant, exitCode, entered, walletCount, i, attempts, registered,
                 files, serverOk, generated, calls, posts, lastCall, waits,
                 allRejected, probeFails, lastProbe, probeFailed, reported>>

\* generateAndRegisterWallet, line 119: the retry delay
gen_delay ==
  /\ pc = "gen_delay"
  /\ UNCHANGED <<referralCode, wallet, curFile, disk, persisted, lastRequest, sent>>
  /\ waits' = Append(waits, retryDelay)
  /\ clock' = clock + retryDelay
  /\ pc' = "gen_while"
  /\ UNCHANGED <<variant, exitCode, entered, walletCount, i, attempts, registered,
                 error, files, status, serverOk, generated, calls, posts,
                 lastCall, allRejected, probeFails, lastProbe, probeFailed,
                 reported>>

\* main, lines 75-79: an error that escaped the loop ends the batch
main_catch ==
  /\ pc = "main_catch"
  /\ UNCHANGED <<clock, referralCode, wallet, curFile, disk, persisted, lastRequest, sent>>
  /\ pc' = "done"
  /\ UNCHANGED <<variant, exitCode, entered, walletCount, i, attempts, registered,
                 error, files, status, serverOk, generated, calls, posts,
                 lastCall, waits, allRejected, probeFails, lastProbe,
                 probeFailed, reported>>

\* ------------------------------------------------------- WalletRegistrar

\* WalletRegistrar.registerWallet: sign, one POST, check the success flag
WalletRegistrar_registerWallet(signOk, resp) ==
  IF ~signOk THEN [posts |-> 0, ok |-> FALSE, error |-> Err("sign", "none", "absent")]
  ELSE IF resp \in Responses \ {"OK_REJECTED", "OK_SUCCESS"}
       THEN [posts |-> 1, ok |-> FALSE, error |-> PostError(resp)]
       ELSE IF ~SuccessFlag(resp)
            THEN [posts |-> 1, ok |-> FALSE, error |-> PostError(resp)]
            ELSE [posts |-> 1, ok |-> TRUE, error |-> NoError]

\* registerWithRetry: if (attempt < CONFIG.maxRetries) wait and recurse
WalletRegistrar_retryCond(a) == a < maxRetries

\* init, lines 34-46: the prompts, then generateWallets is entered (the
\* referral code is passed through to registerWallet)
WalletRegistrar_init ==
  /\ pc = "init_ask"
  /\ UNCHANGED <<clock, wallet, curFile, disk, persisted, lastRequest, sent>>
  /\ \E answer \in Answers :
       /\ entered' = parseInt(answer)
       /\ walletCount' = askQuestion(answer, defaultWalletCount)
  /\ \E answer \in RefAnswers : referralCode' = askQuestionText(answer)
  /\ i' = 1
  /\ pc' = "gw_for"
  /\ UNCHANGED <<variant, exitCode, attempts, registered, error, files, status,
                 serverOk, generated, calls, posts, lastCall, waits, allRejected,
                 probeFails, lastProbe, probeFailed, reported>>

\* generateWallets, lines 62-73: the loop test; a new wallet is created and
\* registerWithRetry is entered with attempt = 1, or the report is printed
WalletRegistrar_generateWallets ==
  /\ pc = "gw_for"
  /\ UNCHANGED <<clock, referralCode, disk, persisted>>
  /\ IF LoopTest(i, walletCount)
     THEN /\ StartWallet
          /\ attempts' = 1
          /\ pc' = "rwr_register"
          /\ UNCHANGED reported
     ELSE /\ reported' = TRUE
          /\ pc' = "done"
          /\ UNCHANGED <<generated, status, registered, error, calls, posts,
                         lastCall, waits, allRejected, probeFails, attempts,
                         wallet, curFile, lastRequest, sent>>
  /\ UNCHANGED <<variant, exitCode, entered, walletCount, i, files, serverOk,
                 lastProbe, probeFailed>>

\* generateWallets, line 62: i++
WalletRegistrar_inc ==
  /\ pc = "gw_inc"
  /\ UNCHANGED <<clock, referralCode, wallet, curFile, disk, persisted, lastRequest, sent>>
  /\ i' = i + 1
  /\ pc' = "gw_for"
  /\ UNCHANGED <<variant, exitCode, entered, walletCount, attempts, registered,
                 error, files, status, serverOk, generated, calls, posts,
                 lastCall, waits, allRejected, probeFails, lastProbe,
                 probeFailed, reported>>

\* registerWithRetry, line 78: the registerWallet call
WalletRegistrar_register ==
  /\ pc = "rwr_register"
  /\ UNCHANGED <<clock, referralCode, wallet, curFile, disk, persisted>>
  /\ \E signOk \in BOOLEAN, resp \in Responses :
       \E body \in Bodies(resp) :
         LET r == WalletRegistrar_registerWallet(signOk, resp)
             req == WalletRegistrar_buildRequest(wallet, referralCode, clock)
         IN
         /\ CallMade(r, signOk, resp, body, req)
         /\ error' = r.error
         /\ pc' = IF r.ok THEN "rwr_write" ELSE "rwr_catch"
  /\ UNCHANGED <<variant, exitCode, entered, walletCount, i, attempts, registered,
                 files, status, generated, waits, probeFails, lastProbe,
                 probeFailed, reported>>

\* registerWithRetry, lines 79-81: the record file is written
WalletRegistrar_write ==
  /\ pc = "rwr_write"
  /\ UNCHANGED <<clock, referralCode, wallet, curFile, lastRequest, sent>>
  /\ \E writeOk \in BOOLEAN :
       IF writeOk
       THEN /\ files' = files \cup {curFile}
            /\ disk' = writeFileSync(disk, curFile, JSONstringify(lastCall.result))
            /\ persisted' = persisted
                 \cup {[name |-> curFile, text |-> JSONstringify(lastCall.result)]}
            /\ status' = [status EXCEPT ![i] = "succeeded"]
            /\ pc' = "gw_inc"
            /\ UNCHANGED error
       ELSE /\ error' = Err("write", "EACCES", "absent")
            /\ pc' = "rwr_catch"
            /\ UNCHANGED <<files, status, disk, persisted>>
  /\ UNCHANGED <<variant, exitCode, entered, walletCount, i, attempts, registered,
                 serverOk, generated, calls, posts, lastCall, waits, allRejected,
                 probeFails, lastProbe, probeFailed, reported>>

\* registerWithRetry, lines 82-91: the catch block
WalletRegistrar_catch ==
  /\ pc = "rwr_catch"
  /\ UNCHANGED <<clock, referralCode, wallet, curFile, disk, persisted, lastRequest, sent>>
  /\ IF WalletRegistrar_retryCond(attempts)
     THEN pc' = "rwr_delay" /\ UNCHANGED status
     ELSE /\ status' = [status EXCEPT ![i] = "exhausted"]
          /\ pc' = "gw_inc"
  /\ UNCHANGED <<variant, exitCode, entered, walletCount, i, attempts, registered,
                 error, files, serverOk, generated, calls, posts, lastCall, waits,
                 allRejected, probeFails, lastProbe, probeFailed, reported>>

\* variation: the recursive call is neither returned nor awaited, the caller
\* goes on to the next wallet
WalletRegistrar_delay_detached ==
  /\ pc = "rwr_delay"
  /\ UNCHANGED <<referralCode, wallet, curFile, disk, persisted, lastRequest, sent>>
  /\ waits' = Append(waits, retryDelay)
  /\ clock' = clock + retryDelay
  /\ attempts' = attempts + 1
  /\ pc' = "gw_inc"
  /\ UNCHANGED <<variant, exitCode, entered, walletCount, i, registered, error,
                 files, status, serverOk, generated, calls, posts, lastCall,
                 allRejected, probeFails, lastProbe, probeFailed, reported>>

\* registerWithRetry, lines 86-87: the delay, then the recursive call with
\* attempt + 1
WalletRegistrar_delay ==
  /\ pc = "rwr_delay"
  /\ UNCHANGED <<referralCode, wallet, curFile, disk, persisted, lastRequest, sent>>
  /\ waits' = Append(waits, retryDelay)
  /\ clock' = clock + retryDelay
  /\ attempts' = attempts + 1
  /\ pc' = "rwr_register"
  /\ UNCHANGED <<variant, exitCode, entered, walletCount, i, registered, error,
                 files, status, serverOk, generated, calls, posts, lastCall,
                 allRejected, probeFails, lastProbe, probeFailed, reported>>

Next ==
  \/ main_probe
  \/ main_ask
  \/ main_for
  \/ main_inc
  \/ gen_while
  \/ gen_probe
  \/ gen_register
  \/ gen_write
  \/ gen_catch
  \/ gen_delay
  \/ main_catch
  \/ WalletRegistrar_init
  \/ WalletRegistrar_generateWallets
  \/ WalletRegistrar_inc
  \/ WalletRegistrar_register
  \/ WalletRegistrar_write
  \/ WalletRegistrar_catch
  \/ WalletRegistrar_delay

Spec == Init /\ [][Next]_vars

\* ------------------------------------------------------------ properties

\* the wallet being processed has reached the end of its retry sequence
WalletEnded == pc \in {"main_inc", "gw_inc"}

\* the wallet being processed is inside an attempt
InAttempt ==
  pc \in {"gen_probe", "gen_register", "gen_write", "gen_catch", "gen_delay",
          "rwr_register", "rwr_write", "rwr_catch", "rwr_delay"}

\* this run wrote the record file of wallet w
HasFile(w) == \E f \in files : f[1] = w

\* every external call returns and the single thread of control goes on:
\* a step that can be taken is eventually taken
FairSpec == Spec /\ WF_vars(Next)

TypeOK ==
  /\ variant \in Variants
  /\ attempts \in 0..maxRetries
  /\ calls \in 0..maxRetries
  /\ Len(waits) < maxRetries
  /\ generated \in 0..MaxWallets

\* C1: the retry orchestrator makes at most maxRetries registerWallet calls
\* for a wallet, whatever the outcomes of the calls
C1_AtMostMaxRetriesCalls == calls <= maxRetries /\ attempts <= maxRetries

C1_Witness == WalletEnded /\ calls = maxRetries /\ status[i] = "exhausted"

C4_ExactlyN ==
  (pc = "done" /\ reported /\ ~entered.nan /\ entered.val >= 0) =>
    /\ generated = entered.val
    /\ Cardinality(files) <= entered.val

\* C5: when the batch has ended, every wallet for which a registration call
\* returned server success has its record file, and no exhausted wallet has
C5_OneRecordPerSuccess ==
  pc = "done" =>
    \A w \in 1..MaxWallets :
      /\ serverOk[w] => HasFile(w)
      /\ status[w] = "exhausted" => ~HasFile(w)

C9_ErrorsContained ==
  pc = "done" =>
    /\ reported
    /\ \A w \in 1..MaxWallets :
         LoopTest(w, walletCount) => status[w] \in {"succeeded", "exhausted"}

\* C10: a wallet is started only when the wallet before it is Succeeded or
\* Exhausted, and only the wallet the loop is at is inside its retry sequence
C10_OneWalletAtATime ==
  \A w \in 1..MaxWallets :
    /\ (w > 1 /\ status[w] # "pending") => status[w - 1] \in {"succeeded", "exhausted"}
    /\ status[w] = "attempting" => w = i

C10_Witness ==
  i = 2 /\ status[1] \in {"succeeded", "exhausted"} /\ status[2] = "attempting"

\* C11: a record written to the output directory, by this run or by an
\* earlier one, is never replaced by another wallet's record
C11_NeverOverwritten == persisted \subseteq disk

\* the record file of the current wallet has just been written
JustWritten ==
  \/ pc \in {"gen_while", "main_inc"} /\ registered
  \/ pc = "gw_inc" /\ status[i] = "succeeded"

\* the record file of the current wallet, parsed back
ReadBack == JSONparse((CHOOSE f \in disk : f.name = curFile).text)

\* the referral code the caller handed to registerWallet
SuppliedReferral ==
  IF variant = "register" THEN Or(referralCode, Undefined) ELSE referralCode

\* C12 (as stated): the record read back holds the wallet's address, the
\* referral code supplied to the registration and the server's payload
C12_Original ==
  JustWritten =>
    /\ ReadBack["address"] = Str(wallet.address)
    /\ ReadBack["referralCode"] = SuppliedReferral
    /\ ReadBack["apiResponse"] = Obj(lastCall.body)

\* C12 (amended): the record read back holds the wallet's address and the
\* server's payload unchanged, and the supplied referral code when that is a
\* non-empty string; for an absent or empty referral code it holds 'none'
C12_RoundTrip ==
  JustWritten =>
    /\ ReadBack["address"] = Str(wallet.address)
    /\ ReadBack["referralCode"] =
         (IF TruthyVal(SuppliedReferral) THEN SuppliedReferral ELSE Str(<<"none">>))
    /\ ReadBack["apiResponse"] = Obj(lastCall.body)
    /\ lastCall.body.success

C12_Witness ==
  JustWritten /\ ~TruthyVal(SuppliedReferral) /\ ReadBack["referralCode"] = Str(<<"none">>)
    /\ ReadBack["apiResponse"].v.payload = <<"id", "p2">>

\* C13: unless the startup probe ends the run, the batch eventually ends
\* with every wallet of the batch Succeeded or Exhausted and the completion
\* report printed
C13_BatchTerminates ==
  <>(\/ pc = "exited"
     \/ /\ reported
        /\ \A w \in 1..MaxWallets :
             LoopTest(w, walletCount) => status[w] \in {"succeeded", "exhausted"})

\* the last registerWallet call sent a request and nothing has happened since
JustPosted ==
  /\ lastCall.posts > 0
  /\ \/ pc \in {"gen_write", "rwr_write"}
     \/ pc \in {"gen_catch", "rwr_catch"} /\ error.kind \in {"conn", "http", "rejected"}

\* C14: the request of an attempt carries the time of that attempt, its
\* message embeds that same timestamp and its signature signs that message;
\* timestamp, message and signature differ from those of every earlier
\* attempt of the wallet
C14_FreshRequest ==
  JustPosted =>
    /\ lastRequest.timestamp = toISOString(clock)
    /\ lastRequest.message = Message(wallet.address, lastRequest.timestamp)
    /\ lastRequest.signature = signMessage(wallet, lastRequest.message)
    /\ lastRequest.walletAddress = wallet.address
    /\ \A r \in sent :
         /\ r.timestamp # lastRequest.timestamp
         /\ r.message # lastRequest.message
         /\ r.signature # lastRequest.signature

C14_Witness == JustPosted /\ Cardinality(sent) = maxRetries - 1

\* the POST of the last call completed with an HTTP success status
HttpCompleted == lastCall.first \in {"OK_SUCCESS", "OK_REJECTED"}

\* C15: registerWallet returns a record, carrying the whole response body as
\* apiResponse, exactly when the POST completed and the body's success flag
\* is truthy; on a falsy flag it throws an error with the server's message,
\* or 'Registration failed' when there is none, after its one POST
C15_SuccessIffFlag ==
  lastCall.done =>
    /\ lastCall.ok = (HttpCompleted /\ lastCall.body.success)
    /\ lastCall.ok => lastCall.result["apiResponse"] = Obj(lastCall.body)
    /\ (HttpCompleted /\ ~lastCall.body.success) =>
         /\ lastCall.result = NoRecord
         /\ lastCall.errorText =
              (IF TruthyVal(lastCall.body.message)
               THEN lastCall.body.message ELSE Str(<<"Registration failed">>))
         /\ lastCall.posts = 1
         /\ (pc \in {"gen_catch", "rwr_catch"} /\ error.kind # "probe") =>
              error.kind = "rejected"

C15_Witness ==
  /\ pc \in {"gen_catch", "rwr_catch"}
  /\ lastCall.first = "OK_REJECTED"
  /\ lastCall.body.message = Undefined
  /\ lastCall.errorText = Str(<<"Registration failed">>)

\* C16: the probe returns to its caller, with a boolean, whatever the DNS
\* resolution and the connectivity request do; it returns true only when both
\* succeeded
C16_ProbeNeverThrows ==
  lastProbe.steps # <<>> =>
    /\ ~lastProbe.threw
    /\ lastProbe.ok \in BOOLEAN
    /\ lastProbe.ok => (lastProbe.dns /\ lastProbe.net)
    /\ error.kind # "probe_thrown"

C16_Witness ==
  lastProbe.steps = <<"dns", "get">> /\ ~lastProbe.net /\ ~lastProbe.ok /\ ~lastProbe.threw
    /\ pc = "gen_catch" /\ error.kind = "probe"

\* C17: once a registerWallet call for the current wallet has returned a
\* record, no step makes another registerWallet call for that wallet
C17_NoCallAfterSuccess ==
  [][(i \in 1..MaxWallets /\ serverOk[i] /\ i' = i /\ status[i] = "attempting")
       => calls' <= calls]_vars

\* C18 (register.js): registerWallet is called only in an attempt whose probe
\* returned true; every attempt either fails its probe or makes one call, so
\* a failed probe uses up an attempt, and it is followed by the same delay
C18_ProbeGatesCall ==
  variant = "register" =>
    /\ pc = "gen_register" => (lastProbe.ok /\ calls + probeFails = attempts - 1)
    /\ pc \in {"gen_write", "gen_catch", "gen_delay"} => calls + probeFails = attempts
    /\ (pc = "gen_catch" /\ error.kind = "probe") =>
         (~lastProbe.ok /\ probeFails >= 1 /\ Len(waits) = attempts - 1)
    /\ (pc = "gen_delay" /\ error.kind = "probe") => attempts < maxRetries
    /\ (WalletEnded /\ status[i] = "exhausted") =>
         (calls = maxRetries - probeFails /\ Len(waits) = maxRetries - 1)

C18_Witness ==
  /\ variant = "register"
  /\ WalletEnded
  /\ status[i] = "exhausted"
  /\ calls = 0
  /\ probeFails = maxRetries
  /\ waits = <<retryDelay, retryDelay>>

====
